---- MODULE Spec2Model ----
(***************************************************************************)
(* Model of the SWIS cleaning pipeline, src/cleanData.py clean_swis_data,   *)
(* of the file pipeline around it (process_swis_data and                   *)
(* batch_process_swis_data), and of the detection programs: output.py      *)
(* (clean_data, detect_halo_cme), test.py, test1.py and parameterised.py.  *)
(* A behaviour is one run of one of these programs.                        *)
(*                                                                         *)
(* A DataFrame is a sequence of rows; a row is a record with the row label  *)
(* ("index"), the "time" column and the eighteen science columns.  A cell   *)
(* is a tuple: <<>> is NaN, <<v>> is the number v, and <<m, e>> is the      *)
(* decimal literal m * 10^e, used only for the fill codes of the source     *)
(* that are not integers of the bounded value domain.  Times are integers   *)
(* (seconds).  Arithmetic on cells is exact integer arithmetic; the one     *)
(* quotient of the pipeline (np.interp) is floored to the unit.             *)
(***************************************************************************)
EXTENDS Integers, Sequences, FiniteSets, TLC

VARIABLES
    pc,          \* position in clean_swis_data
    columns,     \* df.columns: the column names of the CSV that was read
    df,          \* the local variable df
    prev,        \* history: df as the stage that ran last received it
    input,       \* history: df as read from the CSV
    output_csv,  \* the output_csv argument: TRUE when a path was given
    written,     \* TRUE when df.to_csv(output_csv) ran
    ret,         \* the returned value: "pending", "df" or "None"
    batch,       \* batch_process_swis_data: position, directory listing, loop
                 \* index, the paths of the file in hand, what was printed
    dpc,         \* position in output.py, test.py, test1.py, parameterised.py
    data,        \* the DataFrame object the caller passed in
    given,       \* history: data as it was when the call was made
    thresholds,  \* the thresholds argument, "None" or a dict
    cme_candidates,  \* the local boolean Series of detect_halo_cme
    results      \* the value returned, or the exception raised

clean_vars == <<pc, columns, df, prev, input, output_csv, written, ret>>
detect_vars == <<dpc, data, given, thresholds, cme_candidates, results>>
vars == <<clean_vars, batch, detect_vars>>

----------------------------------------------------------------------------
(* Cells *)

NaN == <<>>
Num(v) == <<v>>
Dec(m, e) == <<m, e>>
\* the quotient n / d of a float division, kept exact; d = 0 is the IEEE
\* result of a division by zero: NaN for 0 / 0, else +inf or -inf
Frac(n, d) == IF d = 0 /\ n = 0 THEN <<>>
              ELSE IF d = 0 THEN <<IF n > 0 THEN 1 ELSE -1, 0, 0>>
              ELSE IF d < 0 THEN <<-n, -d, 0>>
              ELSE <<n, d, 0>>
IsInf(c) == Len(c) = 3 /\ c[2] = 0
IsNaN(c) == Len(c) = 0
IsNum(c) == Len(c) = 1
Val(c) == c[1]

Abs(x) == IF x < 0 THEN -x ELSE x
Min2(a, b) == IF a < b THEN a ELSE b
Max2(a, b) == IF a > b THEN a ELSE b

science_vars ==
    {"proton_density", "numden_p_uncer", "proton_bulk_speed", "bulk_p_uncer",
     "proton_xvelocity", "proton_yvelocity", "proton_zvelocity",
     "proton_thermal", "thermal_p_uncer", "alpha_density", "numden_a_uncer",
     "alpha_bulk_speed", "bulk_a_uncer", "alpha_thermal", "thermal_a_uncer",
     "spacecraft_xpos", "spacecraft_ypos", "spacecraft_zpos"}

AllColumns == {"time"} \cup science_vars

----------------------------------------------------------------------------
(* 1. Replace fill values: df.replace(fill_values, np.nan) on every column *)

fill_values == {Dec(-1, 31), Num(-9999), Dec(-99999, -2), Dec(99999, -2), Num(9999)}

ReplaceCell(c) == IF c \in fill_values THEN NaN ELSE c

ReplaceFill(frame) ==
    [i \in DOMAIN frame |->
        [f \in DOMAIN frame[i] |->
            IF f \in science_vars THEN ReplaceCell(frame[i][f]) ELSE frame[i][f]]]

----------------------------------------------------------------------------
(* 2. Physics-based cleaning: Series.clip(lower, upper); NaN stays NaN *)

density_upper == 100
thermal_upper == 100000
clip_lower == 0

\* mutant: the upper bound is not applied
Clip_NoUpper(c, lower, upper) ==
    IF IsNum(c) THEN Num(Max2(Val(c), lower)) ELSE c

Clip(c, lower, upper) ==
    IF IsNum(c) THEN Num(Min2(Max2(Val(c), lower), upper)) ELSE c

ClipColumn(frame, col, lower, upper) ==
    [i \in DOMAIN frame |-> [frame[i] EXCEPT ![col] = Clip(@, lower, upper)]]

ClipIfPresent(frame, cols, col, lower, upper) ==
    IF col \in cols THEN ClipColumn(frame, col, lower, upper) ELSE frame

PhysicsClip(frame, cols) ==
    LET d1 == ClipIfPresent(frame, cols, "proton_density", clip_lower, density_upper)
        d2 == ClipIfPresent(d1, cols, "alpha_density", clip_lower, density_upper)
        t1 == ClipIfPresent(d2, cols, "proton_thermal", clip_lower, thermal_upper)
    IN  ClipIfPresent(t1, cols, "alpha_thermal", clip_lower, thermal_upper)

----------------------------------------------------------------------------
(* Velocity validation: df[np.abs(speed_mag - df['proton_bulk_speed']) < 100] *)

velocity_cols == {"proton_xvelocity", "proton_yvelocity", "proton_zvelocity"}
speed_tolerance == 100

SumSquares(r) ==
    Val(r.proton_xvelocity) * Val(r.proton_xvelocity)
    + Val(r.proton_yvelocity) * Val(r.proton_yvelocity)
    + Val(r.proton_zvelocity) * Val(r.proton_zvelocity)

\* |sqrt(s) - b| < tol for integers s >= 0, b, tol, decided without the root
SqrtDiffLess(s, b, tol) ==
    /\ b + tol > 0 /\ s < (b + tol) * (b + tol)
    /\ (b - tol < 0 \/ s > (b - tol) * (b - tol))

\* the comparison with a NaN operand is False, so the row is not selected
VelocityMask(r) ==
    /\ \A c \in velocity_cols : IsNum(r[c])
    /\ IsNum(r.proton_bulk_speed)
    /\ SqrtDiffLess(SumSquares(r), Val(r.proton_bulk_speed), speed_tolerance)

VelocityFilter(frame) == SelectSeq(frame, VelocityMask)

----------------------------------------------------------------------------
(* 3. Time-based cleaning: sort_values('time') then drop_duplicates *)

MinTime(frame, S) == CHOOSE t \in {frame[i].time : i \in S} :
                        \A i \in S : t <= frame[i].time

\* sort_values runs the default kind='quicksort': numpy's introsort, which
\* is not stable.  At small_quicksort elements or fewer it is an insertion
\* sort, which keeps rows of equal time in their order; above that the
\* partition exchanges move rows of equal time past each other, and the rows
\* come out ordered by time with rows of equal time in any order.
small_quicksort == 16

RECURSIVE SortOrdersFrom(_, _, _)
SortOrdersFrom(frame, S, stable) ==
    IF S = {} THEN {<<>>}
    ELSE LET heads == {i \in S : frame[i].time = MinTime(frame, S)}
             picks == IF stable THEN {CHOOSE i \in heads : \A j \in heads : i <= j}
                      ELSE heads
         IN  UNION {{<<i>> \o q : q \in SortOrdersFrom(frame, S \ {i}, stable)} :
                        i \in picks}

SortOrders(frame) ==
    SortOrdersFrom(frame, DOMAIN frame, Len(frame) <= small_quicksort)

Reorder(frame, order) == [k \in DOMAIN order |-> frame[order[k]]]

\* mutant: drop_duplicates without inplace=True, its result is discarded
DropDuplicates_NotInplace(frame) == frame

\* keep='first': a row goes when an earlier row has its time
DropDuplicates(frame) ==
    LET Keep(k) == \A j \in 1..(k - 1) : frame[j].time # frame[k].time
        RECURSIVE Build(_)
        Build(k) == IF k = 0 THEN <<>>
                    ELSE IF Keep(k) THEN Append(Build(k - 1), frame[k])
                    ELSE Build(k - 1)
    IN  Build(Len(frame))

----------------------------------------------------------------------------
(* 4. Uncertainty filtering *)

uncertainty_pairs ==
    <<  <<"proton_density", "numden_p_uncer">>,
        <<"proton_bulk_speed", "bulk_p_uncer">>,
        <<"alpha_density", "numden_a_uncer">>  >>

\* uncert > 0.5 * |param|, False when either operand is NaN
UncertMask(r, param, uncert) ==
    /\ IsNum(r[uncert]) /\ IsNum(r[param])
    /\ 2 * Val(r[uncert]) > Abs(Val(r[param]))

UncertColumn(frame, param, uncert) ==
    [i \in DOMAIN frame |->
        IF UncertMask(frame[i], param, uncert)
        THEN [frame[i] EXCEPT ![param] = NaN] ELSE frame[i]]

RECURSIVE UncertFrom(_, _, _)
UncertFrom(frame, cols, k) ==
    IF k > Len(uncertainty_pairs) THEN frame
    ELSE IF uncertainty_pairs[k][2] \in cols
         THEN UncertFrom(UncertColumn(frame, uncertainty_pairs[k][1],
                                      uncertainty_pairs[k][2]), cols, k + 1)
         ELSE UncertFrom(frame, cols, k + 1)

UncertaintyFilter(frame, cols) == UncertFrom(frame, cols, 1)

\* df[param] raises KeyError when the uncertainty column is there and param is not
UncertKeyError(cols) ==
    \E k \in DOMAIN uncertainty_pairs :
        uncertainty_pairs[k][2] \in cols /\ uncertainty_pairs[k][1] \notin cols

----------------------------------------------------------------------------
(* 5. Spacecraft position validation *)

pos_cols == {"spacecraft_xpos", "spacecraft_ypos", "spacecraft_zpos"}
jump_threshold == 1000

\* df[pos_cols].diff().abs(): against the row before, NaN in the first row
PosDiff(frame, i, c) ==
    IF i = 1 \/ IsNaN(frame[i][c]) \/ IsNaN(frame[i - 1][c]) THEN NaN
    ELSE Num(Abs(Val(frame[i][c]) - Val(frame[i - 1][c])))

PositionMask(frame, i) ==
    \/ \A c \in pos_cols : IsNum(PosDiff(frame, i, c))
                           /\ Val(PosDiff(frame, i, c)) < jump_threshold
    \/ \A c \in pos_cols : IsNaN(PosDiff(frame, i, c))

PositionFilter(frame) ==
    LET RECURSIVE Build(_)
        Build(k) == IF k = 0 THEN <<>>
                    ELSE IF PositionMask(frame, k) THEN Append(Build(k - 1), frame[k])
                    ELSE Build(k - 1)
    IN  Build(Len(frame))

----------------------------------------------------------------------------
(* 6. Time interpolation: set_index('time'), interpolate(method='time',    *)
(*    limit=5), reset_index()                                              *)

interp_limit == 5

Valid(frame, c) == {i \in DOMAIN frame : IsNum(frame[i][c])}
SetMin(S) == CHOOSE x \in S : \A y \in S : x <= y
SetMax(S) == CHOOSE x \in S : \A y \in S : x >= y

\* first position of the run of NaN that holds position i
RunStart(frame, c, i) ==
    SetMin({s \in 1..i : \A j \in s..i : IsNaN(frame[j][c])})

\* np.interp at x between (x0, y0) and (x1, y1)
Interp(x, x0, y0, x1, y1) == y0 + ((y1 - y0) * (x - x0)) \div (x1 - x0)

\* limit_direction='forward': NaN before the first valid value stay, a NaN
\* more than limit places into its run stays, np.interp fills the others and
\* holds the last valid value to the right of it
InterpCell(frame, c, i) ==
    LET valid == Valid(frame, c)
    IN  IF IsNum(frame[i][c]) \/ valid = {} THEN frame[i][c]
        ELSE IF i < SetMin(valid) THEN NaN
        ELSE IF i - RunStart(frame, c, i) >= interp_limit THEN NaN
        ELSE IF i > SetMax(valid) THEN frame[SetMax(valid)][c]
        ELSE LET lo == SetMax({j \in valid : j < i})
                 hi == SetMin({j \in valid : j > i})
             IN  Num(Interp(frame[i].time, frame[lo].time, Val(frame[lo][c]),
                            frame[hi].time, Val(frame[hi][c])))

Interpolate(frame) ==
    [i \in DOMAIN frame |->
        [f \in DOMAIN frame[i] |->
            IF f \in science_vars THEN InterpCell(frame, f, i)
            ELSE IF f = "index" THEN i - 1
            ELSE frame[i][f]]]

----------------------------------------------------------------------------
(* Inputs: the CSV files the runs are started on *)

GapRows == 8
DupRows == 4
VelRows == 1
PosRows == 3
UncRows == 1

BaseRow(i, t) ==
    [index |-> i - 1, time |-> t,
     proton_density |-> Num(5), numden_p_uncer |-> Num(1),
     proton_bulk_speed |-> Num(50), bulk_p_uncer |-> Num(1),
     proton_xvelocity |-> Num(3), proton_yvelocity |-> Num(4),
     proton_zvelocity |-> Num(0),
     proton_thermal |-> Num(30), thermal_p_uncer |-> Num(1),
     alpha_density |-> Num(1), numden_a_uncer |-> Num(0),
     alpha_bulk_speed |-> Num(50), bulk_a_uncer |-> Num(1),
     alpha_thermal |-> Num(20), thermal_a_uncer |-> Num(1),
     spacecraft_xpos |-> Num(0), spacecraft_ypos |-> Num(0),
     spacecraft_zpos |-> Num(0)]

\* irregular sampling instants
TimeAt(i) == (i * (i + 1)) \div 2

\* frames of n rows whose row i is drawn from choices[i]
RECURSIVE Frames(_, _)
Frames(n, choices) ==
    IF n = 0 THEN {<<>>}
    ELSE {Append(fr, r) : fr \in Frames(n - 1, choices), r \in choices[n]}

\* gaps: each density and thermal sample is there or missing
GapValue(i) == ((i * 53) % 140) - 20
GapRow(i) ==
    {[BaseRow(i, TimeAt(i)) EXCEPT !.proton_density = Num(GapValue(i)),
                                   !.proton_thermal = Num(1000 * GapValue(i))],
     [BaseRow(i, TimeAt(i)) EXCEPT !.proton_density = NaN,
                                   !.proton_thermal = NaN]}
FamGap == Frames(GapRows, [i \in 1..GapRows |-> GapRow(i)])

\* duplicates and disorder: any time at any row, with and without a jump
DupRow(i) ==
    {[BaseRow(i, t) EXCEPT !.spacecraft_xpos = x] :
        t \in 0..2, x \in {Num(0), Num(2000)}}
FamDup == UNION {Frames(n, [i \in 1..n |-> DupRow(i)]) : n \in 1..DupRows}

\* velocity vectors against bulk speeds on both sides of the tolerance
VelRow(i) ==
    {[BaseRow(i, TimeAt(i)) EXCEPT !.proton_xvelocity = v[1],
                                   !.proton_yvelocity = v[2],
                                   !.proton_zvelocity = v[3],
                                   !.proton_bulk_speed = b] :
        v \in {<<Num(3), Num(4), Num(0)>>, <<Num(300), Num(400), Num(0)>>,
               <<NaN, Num(4), Num(0)>>, <<Num(9999), Num(4), Num(0)>>,
               <<Num(3), Num(4), NaN>>},
        b \in {NaN, Dec(-1, 31), Dec(99999, -2), Num(-95), Num(-94), Num(50),
               Num(104), Num(105), Num(200), Num(400), Num(401), Num(599),
               Num(600)}}
FamVel == UNION {Frames(n, [i \in 1..n |-> VelRow(i)]) : n \in 1..VelRows}

\* positions: steps below, at and above the threshold, and missing ones
PosRow(i) ==
    {[BaseRow(i, TimeAt(i)) EXCEPT !.spacecraft_xpos = x, !.spacecraft_ypos = y] :
        x \in {NaN, Num(0), Num(1000), Num(1999)}, y \in {NaN, Num(0)}}
FamPos == UNION {Frames(n, [i \in 1..n |-> PosRow(i)]) : n \in 1..PosRows}

\* values against their uncertainties
UncRow(i) ==
    {[BaseRow(i, TimeAt(i)) EXCEPT !.proton_density = d, !.numden_p_uncer = u,
                                   !.thermal_p_uncer = tu, !.bulk_a_uncer = bu] :
        d \in {NaN, Num(10), Num(-10), Num(150)},
        u \in {NaN, Num(5), Num(6), Num(51)},
        tu \in {Num(1), Num(60)}, bu \in {Num(1), Num(60)}}
FamUnc == UNION {Frames(n, [i \in 1..n |-> UncRow(i)]) : n \in 1..UncRows}

\* fill codes in the input, and neighbours that interpolate to a fill code
FillRow(i) ==
    {[BaseRow(i, 10 * i) EXCEPT !.spacecraft_xpos = x] :
        x \in IF i = 2 THEN fill_values \cup {NaN, Num(9998)}
              ELSE {Num(9997 + i), NaN}}
FamFill == Frames(3, [i \in 1..3 |-> FillRow(i)])

\* a long file in time order in which a row may repeat the time of the row
\* before it
BigRows == 18
BigRow(i) ==
    {BaseRow(i, t) : t \in IF i \in {9, 12} THEN {i - 1, i} ELSE {i}}
FamBig == Frames(BigRows, [i \in 1..BigRows |-> BigRow(i)])

\* a CSV that lacks one column: the cells of that column are never read
ColRow(i) == {[BaseRow(i, TimeAt(i)) EXCEPT !.spacecraft_xpos = Num(2000 * (i - 1))]}
FamCol == Frames(2, [i \in 1..2 |-> ColRow(i)])
LackOne == {AllColumns \ {c} : c \in AllColumns}

Blank(frame, cols) ==
    [i \in DOMAIN frame |->
        [f \in DOMAIN frame[i] |->
            IF f \in science_vars \ cols THEN NaN ELSE frame[i][f]]]

----------------------------------------------------------------------------
(* clean_swis_data, one action per numbered stage of the function *)

\* no batch is running: clean_swis_data was called on its own
NoBatch ==
    [pc |-> "idle", files |-> <<>>, k |-> 0, raw_csv |-> "None",
     cleaned_csv |-> "None", log |-> <<>>]

\* none of the detection programs is running
NoDetect ==
    /\ dpc = "idle"
    /\ data = [columns |-> {}, rows |-> <<>>]
    /\ given = data
    /\ thresholds = [is_none |-> TRUE, dict |-> <<>>]
    /\ cme_candidates = <<>>
    /\ results = [status |-> "pending", cme_detected |-> FALSE,
                  events |-> <<>>, statistics |-> <<>>, frame |-> data]

InitClean ==
    /\ batch = NoBatch
    /\ NoDetect
    /\ pc = "convert_time"
    /\ \/ input \in FamGap \cup FamDup \cup FamVel \cup FamPos \cup FamUnc
                      \cup FamFill \cup FamBig
          /\ columns = AllColumns
       \/ /\ columns \in LackOne
          /\ input \in {Blank(fr, columns) : fr \in FamCol}
    /\ df = input
    /\ prev = input
    /\ output_csv \in BOOLEAN
    /\ written = FALSE
    /\ ret = "pending"

\* except Exception: print, return None
Raise ==
    /\ pc' = "done"
    /\ ret' = "None"
    /\ prev' = df
    /\ UNCHANGED <<columns, df, input, output_csv, written, batch, detect_vars>>

Step(next, frame) ==
    /\ pc' = next
    /\ df' = frame
    /\ prev' = df
    /\ UNCHANGED <<columns, input, output_csv, written, ret, batch, detect_vars>>

\* pd.read_csv, df['time'] = pd.to_datetime(df['time'])
ConvertTime ==
    /\ pc = "convert_time"
    /\ IF "time" \in columns THEN Step("replace", df) ELSE Raise

ReplaceFillValues ==
    /\ pc = "replace"
    /\ Step("clip", ReplaceFill(df))

PhysicsCleaning ==
    /\ pc = "clip"
    /\ Step("velocity", PhysicsClip(df, columns))

VelocityValidation ==
    /\ pc = "velocity"
    /\ IF velocity_cols \subseteq columns
       THEN IF "proton_bulk_speed" \in columns
            THEN Step("sort", VelocityFilter(df))
            ELSE Raise
       ELSE Step("sort", df)

\* the stage without df.sort_values('time')
TimeCleaning_NoSort ==
    /\ pc = "sort"
    /\ Step("uncertainty", DropDuplicates(df))

TimeCleaning ==
    /\ pc = "sort"
    /\ \E order \in SortOrders(df) :
          Step("uncertainty", DropDuplicates(Reorder(df, order)))

UncertaintyFiltering ==
    /\ pc = "uncertainty"
    /\ IF UncertKeyError(columns) THEN Raise
       ELSE Step("position", UncertaintyFilter(df, columns))

PositionValidation ==
    /\ pc = "position"
    /\ IF pos_cols \subseteq columns
       THEN Step("interpolate", PositionFilter(df))
       ELSE Step("interpolate", df)

TimeInterpolation ==
    /\ pc = "interpolate"
    /\ Step("save", Interpolate(df))

\* if output_csv: df.to_csv(output_csv, index=False); return df
Save ==
    /\ pc = "save"
    /\ pc' = "done"
    /\ written' = output_csv
    /\ ret' = "df"
    /\ prev' = df
    /\ UNCHANGED <<columns, df, input, output_csv, batch, detect_vars>>

----------------------------------------------------------------------------
(* batch_process_swis_data and process_swis_data.  A file of the directory *)
(* is a record: cdf (its name ends with .cdf), readable (cdflib opens it), *)
(* vars (the variables of the CDF) and data (their samples).               *)

BatchFiles == 2

epoch_var == "epoch_for_cdf_mod"

CdfFiles ==
    LET fr == CHOOSE f \in FamCol : TRUE
        File(c, r, v) == [cdf |-> c, readable |-> r, vars |-> v, data |-> fr]
    IN  { File(TRUE, TRUE, {epoch_var} \cup science_vars),
          File(TRUE, TRUE, {epoch_var} \cup (science_vars \ {"proton_bulk_speed"})),
          File(TRUE, TRUE, science_vars),
          File(TRUE, FALSE, {}),
          File(FALSE, FALSE, {}) }

Listings == Frames(BatchFiles, [i \in 1..BatchFiles |-> CdfFiles])

\* the columns of the CSV convert_swis_cdf_to_csv writes
CsvColumns(file) == {"time"} \cup (science_vars \cap file.vars)

\* cdflib.CDF raises on an unreadable file, the function on a missing epoch
ConvertFails(file) == ~file.readable \/ epoch_var \notin file.vars

InitBatch ==
    /\ NoDetect
    /\ batch \in {[NoBatch EXCEPT !.pc = "loop", !.files = l, !.k = 1] :
                      l \in Listings}
    /\ pc = "idle"
    /\ columns = {}
    /\ input = <<>>
    /\ df = <<>>
    /\ prev = <<>>
    /\ output_csv = FALSE
    /\ written = FALSE
    /\ ret = "pending"

Logged(reported, cleaning) ==
    [file |-> batch.k, raw_csv |-> batch.raw_csv,
     cleaned_csv |-> batch.cleaned_csv, reported |-> reported,
     cleaning |-> cleaning,
     clean_ret |-> IF cleaning THEN ret ELSE "not called",
     written |-> cleaning /\ written]

\* for file in os.listdir(cdf_directory): if file.endswith('.cdf')
BatchLoop ==
    /\ batch.pc = "loop"
    /\ batch' = IF batch.k > Len(batch.files)
                THEN [batch EXCEPT !.pc = "end"]
                ELSE IF batch.files[batch.k].cdf
                     THEN [batch EXCEPT !.pc = "convert"]
                     ELSE [batch EXCEPT !.k = @ + 1]
    /\ UNCHANGED <<clean_vars, detect_vars>>

\* raw_csv = convert_swis_cdf_to_csv(...); if raw_csv is None: return None, None
ConvertCdf ==
    /\ batch.pc = "convert"
    /\ batch' = IF ConvertFails(batch.files[batch.k])
                THEN [batch EXCEPT !.pc = "report", !.raw_csv = "None",
                                   !.cleaned_csv = "None"]
                ELSE [batch EXCEPT !.pc = "clean", !.raw_csv = "raw.csv"]
    /\ UNCHANGED <<clean_vars, detect_vars>>

\* cleaned_csv = f"{base_name}_cleaned.csv"; clean_swis_data(raw_csv, cleaned_csv)
CallClean ==
    /\ batch.pc = "clean"
    /\ batch' = [batch EXCEPT !.pc = "cleaning", !.cleaned_csv = "raw_cleaned.csv"]
    /\ pc' = "convert_time"
    /\ columns' = CsvColumns(batch.files[batch.k])
    /\ input' = Blank(batch.files[batch.k].data, columns')
    /\ df' = input'
    /\ prev' = input'
    /\ output_csv' = TRUE
    /\ written' = FALSE
    /\ ret' = "pending"
    /\ UNCHANGED detect_vars

\* the value clean_swis_data returned is dropped; return raw_csv, cleaned_csv
\* then, in the batch: if cleaned_csv: print("Successfully processed ...")
ProcessReturn ==
    /\ batch.pc = "cleaning"
    /\ pc = "done"
    /\ batch' = [batch EXCEPT !.pc = "report"]
    /\ UNCHANGED <<clean_vars, detect_vars>>

BatchReport ==
    /\ batch.pc = "report"
    /\ batch' = [batch EXCEPT
                    !.pc = "loop",
                    !.k = @ + 1,
                    !.log = Append(@, Logged(batch.cleaned_csv # "None",
                                             batch.raw_csv # "None"))]
    /\ UNCHANGED <<clean_vars, detect_vars>>

----------------------------------------------------------------------------
(* output.py: detect_halo_cme(data, thresholds).  A DataFrame is a record  *)
(* of its column names and its rows; a row maps "time" (the index) and     *)
(* every column to a cell.                                                 *)

EmptyFrame == [columns |-> {}, rows |-> <<>>]

RECURSIVE Pow10(_)
Pow10(n) == IF n = 0 THEN 1 ELSE 10 * Pow10(n - 1)

\* the value of a cell in hundredths
Scaled(c) == IF IsNum(c) THEN 100 * c[1] ELSE c[1] * Pow10(c[2] + 2)

\* a > b on floats: False when either side is NaN
Gt(a, b) == ~IsNaN(a) /\ ~IsNaN(b) /\ Scaled(a) > Scaled(b)
Lt(a, b) == ~IsNaN(a) /\ ~IsNaN(b) /\ Scaled(a) < Scaled(b)

\* a > m * j for a quotient m = m[1] / m[2]
GtTimes(a, m, j) ==
    ~IsNaN(a) /\ ~IsNaN(m) /\ Scaled(a) * m[2] > m[1] * Scaled(j)

RECURSIVE SumScaled(_, _, _, _)
SumScaled(rows, c, lo, hi) ==
    IF lo > hi THEN 0 ELSE Scaled(rows[hi][c]) + SumScaled(rows, c, lo, hi - 1)

\* Series.rolling(window=w).mean(): min_periods is w, so the mean is NaN
\* until w samples are in the window and while one of them is NaN
RollingMean(rows, c, i, w) ==
    IF i < w \/ \E j \in (i - w + 1)..i : IsNaN(rows[j][c]) THEN NaN
    ELSE Frac(SumScaled(rows, c, i - w + 1, i), 100 * w)

\* data[name] = series: a new column, or new values for an old one
AddColumn(frame, name, series) ==
    [columns |-> frame.columns \cup {name},
     rows |-> [i \in DOMAIN frame.rows |->
                 [c \in DOMAIN frame.rows[i] \cup {name} |->
                     IF c = name THEN series[i] ELSE frame.rows[i][c]]]]

window_size == 30

default_thresholds ==
    [speed |-> Num(450), density_jump |-> Dec(13, -1),
     alpha_ratio |-> Dec(15, -2), min_duration |-> 1]

\* lines 52-54: three columns are assigned into the frame that was passed in
MovingAveragesOf(frame) ==
    LET Ma(c) == [i \in DOMAIN frame.rows |->
                     RollingMean(frame.rows, c, i, window_size)]
    IN  AddColumn(AddColumn(AddColumn(frame, "density_ma", Ma("proton_density")),
                            "speed_ma", Ma("proton_bulk_speed")),
                  "alpha_ma", Ma("alpha_density"))

\* lines 57-61
Candidate(r, th) ==
    /\ Gt(r["proton_bulk_speed"], th.speed)
    /\ GtTimes(r["proton_density"], r["density_ma"], th.density_jump)
    /\ Gt(r["alpha_density"], th.alpha_ratio)

\* (cme_candidates != cme_candidates.shift(1)).cumsum(): shift puts NaN in
\* front, which differs from both True and False
GroupId(flags, i) ==
    Cardinality({j \in 1..i : j = 1 \/ flags[j] # flags[j - 1]})

MaxCell(S) == CHOOSE c \in S : \A d \in S : Scaled(c) >= Scaled(d)

\* the strict form of the duration test
LongEnough_Strict(n, min_duration) == n > min_duration

\* len(group) >= thresholds['min_duration']
LongEnough(n, min_duration) == n >= min_duration

\* the event dict of one group of data[cme_candidates].groupby(cme_groups)
EventOf(rows, G) ==
    [start_time |-> rows[SetMin(G)]["time"],
     end_time |-> rows[SetMax(G)]["time"],
     duration |-> Cardinality(G),
     max_speed |-> MaxCell({rows[i]["proton_bulk_speed"] : i \in G}),
     max_density |-> MaxCell({rows[i]["proton_density"] : i \in G}),
     max_alpha |-> MaxCell({rows[i]["alpha_density"] : i \in G})]

\* groupby iterates the groups in ascending key order
RECURSIVE EventsFrom(_, _, _, _)
EventsFrom(rows, flags, ids, min_duration) ==
    IF ids = {} THEN <<>>
    ELSE LET g == SetMin(ids)
             G == {i \in DOMAIN flags : flags[i] /\ GroupId(flags, i) = g}
             rest == EventsFrom(rows, flags, ids \ {g}, min_duration)
         IN  IF LongEnough(Cardinality(G), min_duration)
             THEN <<EventOf(rows, G)>> \o rest
             ELSE rest

EventsOf(rows, flags, min_duration) ==
    EventsFrom(rows, flags,
               {GroupId(flags, i) : i \in {j \in DOMAIN flags : flags[j]}},
               min_duration)

RECURSIVE SumDuration(_)
SumDuration(events) ==
    IF events = <<>> THEN 0 ELSE Head(events).duration + SumDuration(Tail(events))

\* lines 79-84
StatisticsOf(events) ==
    [num_events |-> Len(events),
     avg_duration |-> Frac(SumDuration(events), Len(events)),
     max_speed |-> MaxCell({events[n].max_speed : n \in DOMAIN events}),
     max_density |-> MaxCell({events[n].max_density : n \in DOMAIN events})]

NoResults == [status |-> "pending", cme_detected |-> FALSE, events |-> <<>>,
              statistics |-> <<>>, frame |-> EmptyFrame]

\* inputs: window_size - 1 quiet samples, then VaryRows samples, each of
\* them high, high but slow, or without a density
VaryRows == 4

Sample(t, d, v, a) ==
    [time |-> t, proton_density |-> d, proton_bulk_speed |-> v,
     alpha_density |-> a]

DetectRow(i) ==
    IF i < window_size THEN {Sample(i, Num(10), Num(500), Dec(20, -2))}
    ELSE {Sample(i, Num(20), Num(500), Dec(20, -2)),
          Sample(i, Num(20), Num(400), Dec(20, -2)),
          Sample(i, NaN, Num(500), Dec(20, -2))}

plasma_columns == {"proton_density", "proton_bulk_speed", "alpha_density"}

DetectFrames ==
    {[columns |-> plasma_columns, rows |-> r] :
        r \in Frames(window_size - 1 + VaryRows,
                     [i \in 1..(window_size - 1 + VaryRows) |-> DetectRow(i)])}

\* the dict of the __main__ block, lines 162-167
relaxed_thresholds ==
    [speed |-> Num(420), density_jump |-> Dec(12, -1),
     alpha_ratio |-> Dec(12, -2), min_duration |-> 1]

Without(dict, key) == [k \in DOMAIN dict \ {key} |-> dict[k]]

Profiles ==
    {[is_none |-> TRUE, dict |-> <<>>]}
    \cup {[is_none |-> FALSE, dict |-> d] :
            d \in {relaxed_thresholds,
                   [relaxed_thresholds EXCEPT !.min_duration = 2]}
                  \cup {Without(relaxed_thresholds, k) :
                          k \in DOMAIN relaxed_thresholds}}

NoClean ==
    /\ batch = NoBatch
    /\ pc = "idle"
    /\ columns = {}
    /\ input = <<>>
    /\ df = <<>>
    /\ prev = <<>>
    /\ output_csv = FALSE
    /\ written = FALSE
    /\ ret = "pending"

InitDetect ==
    /\ NoClean
    /\ dpc = "detect_halo_cme"
    /\ data \in DetectFrames
    /\ given = data
    /\ thresholds \in Profiles
    /\ cme_candidates = <<>>
    /\ results = NoResults

\* an exception leaves the function: nothing is returned
DetectRaise(error) ==
    /\ dpc' = "raised"
    /\ results' = [results EXCEPT !.status = error]

\* lines 40-48
DetectDefaults ==
    /\ dpc = "detect_halo_cme"
    /\ dpc' = "moving_averages"
    /\ thresholds' = IF thresholds.is_none
                     THEN [is_none |-> FALSE, dict |-> default_thresholds]
                     ELSE thresholds
    /\ results' = NoResults
    /\ UNCHANGED <<clean_vars, batch, data, given, cme_candidates>>

\* lines 50-54
MovingAverages ==
    /\ dpc = "moving_averages"
    /\ dpc' = "criteria"
    /\ data' = MovingAveragesOf(data)
    /\ UNCHANGED <<clean_vars, batch, given, thresholds, cme_candidates, results>>

\* lines 56-61: thresholds[...] raises KeyError for an absent key
DetectionCriteria ==
    /\ dpc = "criteria"
    /\ IF {"speed", "density_jump", "alpha_ratio"} \subseteq DOMAIN thresholds.dict
       THEN /\ cme_candidates' =
                 [i \in DOMAIN data.rows |-> Candidate(data.rows[i], thresholds.dict)]
            /\ dpc' = "aggregate"
            /\ UNCHANGED results
       ELSE /\ DetectRaise("KeyError")
            /\ UNCHANGED cme_candidates
    /\ UNCHANGED <<clean_vars, batch, data, given, thresholds>>

\* lines 63-75: thresholds['min_duration'] is read inside the loop only
AggregateEvents ==
    /\ dpc = "aggregate"
    /\ IF \E i \in DOMAIN cme_candidates : cme_candidates[i]
       THEN IF "min_duration" \in DOMAIN thresholds.dict
            THEN /\ results' = [results EXCEPT !.events =
                        EventsOf(data.rows, cme_candidates,
                                 thresholds.dict.min_duration)]
                 /\ dpc' = "statistics"
            ELSE DetectRaise("KeyError")
       ELSE /\ dpc' = "statistics"
            /\ UNCHANGED results
    /\ UNCHANGED <<clean_vars, batch, data, given, thresholds, cme_candidates>>

\* lines 77-86
ReturnResults ==
    /\ dpc = "statistics"
    /\ dpc' = "returned"
    /\ results' = IF results.events # <<>>
                  THEN [results EXCEPT !.status = "returned",
                                       !.cme_detected = TRUE,
                                       !.statistics = StatisticsOf(results.events)]
                  ELSE [results EXCEPT !.status = "returned"]
    /\ UNCHANGED <<clean_vars, batch, data, given, thresholds, cme_candidates>>

----------------------------------------------------------------------------
(* output.py: clean_data(data) *)

\* the fill values, which are the same for the three columns
FILL_VALUES == {Dec(-1, 31), Dec(1, 31)}

\* lines 17-20: data[col] = data[col].replace(fill, np.nan)
ReplaceFillsOf(frame) ==
    LET Replaced(f, c) ==
            [i \in DOMAIN f.rows |->
                IF f.rows[i][c] \in FILL_VALUES THEN NaN ELSE f.rows[i][c]]
        RECURSIVE Over(_, _)
        Over(f, cols) ==
            IF cols = {} THEN f
            ELSE LET c == CHOOSE x \in cols : TRUE
                 IN  Over(IF c \in f.columns THEN AddColumn(f, c, Replaced(f, c))
                          ELSE f,
                          cols \ {c})
    IN  Over(frame, {"proton_density", "proton_bulk_speed", "alpha_density"})

\* Series.where((s > lo) & (s < hi)): NaN where the condition is False
Where(c, lo, hi) == IF Gt(c, lo) /\ Lt(c, hi) THEN c ELSE NaN

\* lines 23-30
ValidateRangesOf(frame) ==
    LET Within(f, c, lo, hi) ==
            AddColumn(f, c, [i \in DOMAIN f.rows |-> Where(f.rows[i][c], lo, hi)])
    IN  Within(Within(Within(frame, "proton_density", Num(0), Num(100)),
                      "proton_bulk_speed", Num(100), Num(1000)),
               "alpha_density", Num(0), Num(1))

clean_limit == 60

\* DataFrame.interpolate(limit=60): linear in the row number, forward only
LinearCell(rows, c, i) ==
    LET valid == {j \in DOMAIN rows : ~IsNaN(rows[j][c])}
        start == SetMin({s \in 1..i : \A j \in s..i : IsNaN(rows[j][c])})
    IN  IF ~IsNaN(rows[i][c]) \/ valid = {} THEN rows[i][c]
        ELSE IF i < SetMin(valid) THEN NaN
        ELSE IF i - start >= clean_limit THEN NaN
        ELSE IF i > SetMax(valid) THEN rows[SetMax(valid)][c]
        ELSE LET lo == SetMax({j \in valid : j < i})
                 hi == SetMin({j \in valid : j > i})
             IN  Dec(Interp(i, lo, Scaled(rows[lo][c]), hi, Scaled(rows[hi][c])), -2)

LinearInterpolate(frame) ==
    [frame EXCEPT !.rows =
        [i \in DOMAIN frame.rows |->
            [c \in DOMAIN frame.rows[i] |->
                IF c \in frame.columns THEN LinearCell(frame.rows, c, i)
                ELSE frame.rows[i][c]]]]

\* DataFrame.dropna(): the rows without a NaN
DropNa(frame) ==
    [frame EXCEPT !.rows =
        SelectSeq(frame.rows,
                  LAMBDA r : \A c \in frame.columns : ~IsNaN(r[c]))]

CleanRows == 3

CleanRow(i) ==
    {Sample(i, Num(8 + 2 * i), Num(500), Dec(20, -2)),
     Sample(i, Dec(-1, 31), Num(500), Dec(20, -2)),
     Sample(i, Num(8 + 2 * i), Num(50), Dec(20, -2)),
     Sample(i, Num(8 + 2 * i), Num(500), Dec(1, 31))}

CleanFrames ==
    {[columns |-> plasma_columns, rows |-> r] :
        r \in Frames(CleanRows, [i \in 1..CleanRows |-> CleanRow(i)])}

InitCleanData ==
    /\ NoClean
    /\ dpc = "clean_data"
    /\ data \in CleanFrames
    /\ given = data
    /\ thresholds = [is_none |-> TRUE, dict |-> <<>>]
    /\ cme_candidates = <<>>
    /\ results = NoResults

ReplaceFills ==
    /\ dpc = "clean_data"
    /\ dpc' = "validate"
    /\ data' = ReplaceFillsOf(data)
    /\ UNCHANGED <<clean_vars, batch, given, thresholds, cme_candidates, results>>

ValidateRanges ==
    /\ dpc = "validate"
    /\ dpc' = "interpolate"
    /\ data' = ValidateRangesOf(data)
    /\ UNCHANGED <<clean_vars, batch, given, thresholds, cme_candidates, results>>

\* lines 33-36: data is rebound to a new frame, the caller's is left alone
InterpolateDropna ==
    /\ dpc = "interpolate"
    /\ dpc' = "clean_returned"
    /\ results' = [results EXCEPT !.status = "returned",
                                  !.frame = DropNa(LinearInterpolate(data))]
    /\ UNCHANGED <<clean_vars, batch, data, given, thresholds, cme_candidates>>

----------------------------------------------------------------------------
(* test.py and test1.py: the rolling threshold over a 30-minute window.    *)
(* Times are minutes.  The scripts read the cleaned CSV, whose times are   *)
(* strictly increasing.                                                    *)

window == 30
k_test == 2
k_test1 == 4

\* sqrt(a / b), kept exact
Root(a, b) == <<a, b, 0, 0>>
\* s / n + k * sqrt(a / b), kept exact
MeanPlusKStd(s, n, k, a, b) == <<s, n, k, a, b>>

\* the sum of the values (p = 1) or of their squares (p = 2) over rows W
RECURSIVE SumOver(_, _, _, _)
SumOver(rows, c, W, p) ==
    IF W = {} THEN 0
    ELSE LET j == CHOOSE y \in W : TRUE
             v == Val(rows[j][c])
         IN  (IF p = 2 THEN v * v ELSE v) + SumOver(rows, c, W \ {j}, p)

\* rolling('30T'): the samples of (t - 30 min, t], the sample at t included;
\* the statistics skip the NaN of the window
Observed(rows, c, i) ==
    {j \in 1..i : rows[j]["time"] > rows[i]["time"] - window /\ ~IsNaN(rows[j][c])}

\* rolling(window).mean(): min_periods is 1 for a time window
TimeRollingMean(rows, c, i) ==
    LET W == Observed(rows, c, i)
    IN  IF W = {} THEN NaN ELSE <<SumOver(rows, c, W, 1), Cardinality(W), 0>>

\* rolling(window).std(): ddof is 1, NaN with fewer than two observations
TimeRollingStd(rows, c, i) ==
    LET W == Observed(rows, c, i)
        n == Cardinality(W)
        s == SumOver(rows, c, W, 1)
    IN  IF n < 2 THEN NaN
        ELSE Root(n * SumOver(rows, c, W, 2) - s * s, n * (n - 1))

\* data['np_mean'] + k * data['np_std']
PlusKStd(mean, k, std) ==
    IF IsNaN(mean) \/ IsNaN(std) THEN NaN
    ELSE MeanPlusKStd(mean[1], mean[2], k, std[1], std[2])

\* x > s/n + k*sqrt(a/b), decided exactly:
\* n*x - s > 0 and (n*x - s)^2 * b > k^2 * n^2 * a
GtThreshold(x, th) ==
    /\ ~IsNaN(x)
    /\ ~IsNaN(th)
    /\ LET e == th[2] * Val(x) - th[1]
       IN  e > 0 /\ e * e * th[5] > th[3] * th[3] * th[2] * th[2] * th[4]

\* the rows of the cleaned CSV the scripts are run on: ScriptRows samples
\* at one cadence, each with a quiet density, a spike, or no density
ScriptRows == 6

ScriptRow(i, step) ==
    {[time |-> step * i, proton_density |-> d] : d \in {Num(10), Num(50), NaN}}

ScriptFrames ==
    UNION {{[columns |-> {"proton_density"}, rows |-> r] :
               r \in Frames(ScriptRows, [i \in 1..ScriptRows |-> ScriptRow(i, step)])} :
           step \in {5, 10}}

InitTest ==
    /\ NoClean
    /\ dpc = "test.py"
    /\ data \in ScriptFrames
    /\ given = data
    /\ thresholds = [is_none |-> TRUE, dict |-> <<>>]
    /\ cme_candidates = <<>>
    /\ results = NoResults

ScriptStep(next, frame) ==
    /\ dpc' = next
    /\ data' = frame
    /\ UNCHANGED <<clean_vars, batch, given, thresholds, cme_candidates, results>>

RollingColumns(frame) ==
    LET mean == [i \in DOMAIN frame.rows |->
                    TimeRollingMean(frame.rows, "proton_density", i)]
        std == [i \in DOMAIN frame.rows |->
                   TimeRollingStd(frame.rows, "proton_density", i)]
    IN  AddColumn(AddColumn(frame, "np_mean", mean), "np_std", std)

ThresholdColumn(frame, name, k) ==
    AddColumn(frame, name,
              [i \in DOMAIN frame.rows |->
                  PlusKStd(frame.rows[i]["np_mean"], k, frame.rows[i]["np_std"])])

SpikeColumn(frame, name, threshold) ==
    AddColumn(frame, name,
              [i \in DOMAIN frame.rows |->
                  GtThreshold(frame.rows[i]["proton_density"],
                              frame.rows[i][threshold])])

\* test.py lines 12-17
TestRolling ==
    /\ dpc = "test.py"
    /\ ScriptStep("test_threshold", RollingColumns(data))

\* test.py line 20
TestThreshold ==
    /\ dpc = "test_threshold"
    /\ ScriptStep("test_flag", ThresholdColumn(data, "threshold", k_test))

\* test.py line 23
TestFlag ==
    /\ dpc = "test_flag"
    /\ ScriptStep("test_done", SpikeColumn(data, "cme_detected", "threshold"))

----------------------------------------------------------------------------
(* test1.py: T_ratio, plasma beta and the combined flag *)

\* v ** 1.58 in hundredths, for the speeds of the inputs (400 ** 1.58 is
\* 12919.77); a negative base gives NaN
Pow158(c) ==
    IF IsNaN(c) \/ Val(c) < 0 THEN NaN
    ELSE IF Val(c) = 0 THEN Dec(0, -2)
    ELSE IF Val(c) = 1 THEN Dec(100, -2)
    ELSE Dec(1291977, -2)

\* 0.5 * speed ** 1.58
TExp(speed) ==
    IF IsNaN(Pow158(speed)) THEN NaN ELSE <<Pow158(speed)[1], 200, 0>>

\* a / q for a cell a and a quotient q: float division, so x / 0 is an
\* infinity and 0 / 0 is NaN
DivideBy(a, q) ==
    IF IsNaN(a) \/ IsNaN(q) THEN NaN ELSE Frac(Val(a) * q[2], q[1])

\* sqrt(x**2 + y**2 + z**2)
BMag(r) ==
    IF \E c \in velocity_cols : IsNaN(r[c]) THEN NaN ELSE Root(SumSquares(r), 1)

\* (2 * mu0 * density * kB * thermal) / B_mag**2, in units of 2 * mu0 * kB
Beta(r) ==
    IF IsNaN(r["proton_density"]) \/ IsNaN(r["proton_thermal"]) \/ IsNaN(r["B_mag"])
    THEN NaN
    ELSE Frac(Val(r["proton_density"]) * Val(r["proton_thermal"]), r["B_mag"][1])

\* q < b for a quotient q and a cell b; -inf is below and +inf above all
LtFrac(q, b) ==
    /\ ~IsNaN(q)
    /\ IF IsInf(q) THEN q[1] < 0 ELSE q[1] * 100 < Scaled(b) * q[2]

\* beta < 0.3: 2 * mu0 * kB is 3.47e-29, so every finite beta of the inputs
\* is below 0.3
LowBeta(q) == ~IsNaN(q) /\ (IsInf(q) => q[1] < 0)

Test1Rows == 2

Test1Row(i) ==
    {[time |-> 10 * i, proton_density |-> Num(d), proton_thermal |-> Num(th),
      proton_bulk_speed |-> Num(v[1]), proton_xvelocity |-> Num(v[2]),
      proton_yvelocity |-> Num(0), proton_zvelocity |-> Num(0)] :
        d \in {0, 10}, th \in {0, 3000, 30000}, v \in {<<0, 0>>, <<400, 400>>}}

Test1Frames ==
    {[columns |-> {"proton_density", "proton_thermal", "proton_bulk_speed"}
                  \cup velocity_cols,
      rows |-> r] :
        r \in Frames(Test1Rows, [i \in 1..Test1Rows |-> Test1Row(i)])}

InitTest1 ==
    /\ NoClean
    /\ dpc = "test1.py"
    /\ data \in Test1Frames
    /\ given = data
    /\ thresholds = [is_none |-> TRUE, dict |-> <<>>]
    /\ cme_candidates = <<>>
    /\ results = NoResults

\* test1.py lines 12-13
Test1Temperature ==
    /\ dpc = "test1.py"
    /\ LET T_exp == [i \in DOMAIN data.rows |->
                        TExp(data.rows[i]["proton_bulk_speed"])]
           T_ratio == [i \in DOMAIN data.rows |->
                          DivideBy(data.rows[i]["proton_thermal"], T_exp[i])]
       IN  ScriptStep("test1_beta",
                      AddColumn(AddColumn(data, "T_exp", T_exp), "T_ratio", T_ratio))

\* test1.py lines 16-19
Test1Beta ==
    /\ dpc = "test1_beta"
    /\ LET B_mag == [i \in DOMAIN data.rows |-> BMag(data.rows[i])]
           withB == AddColumn(data, "B_mag", B_mag)
           beta == [i \in DOMAIN data.rows |-> Beta(withB.rows[i])]
       IN  ScriptStep("test1_threshold", AddColumn(withB, "beta", beta))

\* test1.py lines 22-26
Test1Threshold ==
    /\ dpc = "test1_threshold"
    /\ ScriptStep("test1_criteria",
                  ThresholdColumn(RollingColumns(data), "np_threshold", k_test1))

\* test1.py lines 33-38
Test1Criteria ==
    /\ dpc = "test1_criteria"
    /\ LET shock == SpikeColumn(data, "is_shock", "np_threshold")
           is_low_beta == [i \in DOMAIN data.rows |->
                              LowBeta(data.rows[i]["beta"])]
           is_cold == [i \in DOMAIN data.rows |->
                          LtFrac(data.rows[i]["T_ratio"], Dec(5, -1))]
           flags == AddColumn(AddColumn(shock, "is_low_beta", is_low_beta),
                              "is_cold", is_cold)
           icme_detected == [i \in DOMAIN data.rows |->
                                /\ flags.rows[i]["is_shock"]
                                /\ flags.rows[i]["is_low_beta"]
                                /\ flags.rows[i]["is_cold"]]
       IN  ScriptStep("test1_done", AddColumn(flags, "icme_detected", icme_detected))

----------------------------------------------------------------------------
(* parameterised.py.  Python compiles the whole file before it runs its    *)
(* first statement.  The parenthesis opened at line 55 is never closed, so *)
(* compiling raises SyntaxError: create_cme_dataset is never defined, the  *)
(* call at line 86 never happens, no CSV is read and none is written.      *)

required_cols ==
    {"time", "proton_density", "proton_thermal", "proton_bulk_speed",
     "alpha_density"}

\* the CSV files the script may find at the path of line 86: every required
\* column, or all but one; the first sample has a density of 0
CmeFrames ==
    LET Row(i) == [time |-> i, proton_density |-> Num(20 * (i - 1)),
                   proton_thermal |-> Num(3000),
                   proton_bulk_speed |-> Num(400 + 100 * (i - 1)),
                   alpha_density |-> Num(2)]
        rows == [i \in 1..2 |-> Row(i)]
    IN  {[columns |-> cols,
          rows |-> [i \in 1..2 |-> [c \in cols \cup {"time"} |-> rows[i][c]]]] :
            cols \in {required_cols} \cup {required_cols \ {c} : c \in required_cols}}

InitParameterised ==
    /\ NoClean
    /\ dpc = "parameterised.py"
    /\ data \in CmeFrames
    /\ given = data
    /\ thresholds = [is_none |-> TRUE, dict |-> <<>>]
    /\ cme_candidates = <<>>
    /\ results = NoResults

\* python parameterised.py: SyntaxError: '(' was never closed
CompileParameterised ==
    /\ dpc = "parameterised.py"
    /\ dpc' = "ended"
    /\ results' = [results EXCEPT !.status = "SyntaxError"]
    /\ UNCHANGED <<clean_vars, batch, data, given, thresholds, cme_candidates>>

Init ==
    \/ InitClean
    \/ InitBatch
    \/ InitDetect
    \/ InitCleanData
    \/ InitTest
    \/ InitTest1
    \/ InitParameterised

Next ==
    \/ ConvertTime
    \/ ReplaceFillValues
    \/ PhysicsCleaning
    \/ VelocityValidation
    \/ TimeCleaning
    \/ UncertaintyFiltering
    \/ PositionValidation
    \/ TimeInterpolation
    \/ Save
    \/ BatchLoop
    \/ ConvertCdf
    \/ CallClean
    \/ ProcessReturn
    \/ BatchReport
    \/ DetectDefaults
    \/ MovingAverages
    \/ DetectionCriteria
    \/ AggregateEvents
    \/ ReturnResults
    \/ ReplaceFills
    \/ ValidateRanges
    \/ InterpolateDropna
    \/ TestRolling
    \/ TestThreshold
    \/ TestFlag
    \/ Test1Temperature
    \/ Test1Beta
    \/ Test1Threshold
    \/ Test1Criteria
    \/ CompileParameterised

Spec == Init /\ [][Next]_vars

TypeOK ==
    /\ pc \in {"idle", "convert_time", "replace", "clip", "velocity", "sort",
               "uncertainty", "position", "interpolate", "save", "done"}
    /\ ret \in {"pending", "df", "None"}
    /\ batch.pc \in {"idle", "loop", "convert", "clean", "cleaning", "report", "end"}
    /\ dpc \in {"idle", "detect_halo_cme", "moving_averages", "criteria",
                "aggregate", "statistics", "returned", "raised",
                "clean_data", "validate", "interpolate", "clean_returned",
                "test.py", "test_threshold", "test_flag", "test_done",
                "test1.py", "test1_beta", "test1_threshold", "test1_criteria",
                "test1_done", "parameterised.py", "ended"}
    /\ results.status \in {"pending", "returned", "KeyError", "SyntaxError"}
----------------------------------------------------------------------------
(* Properties.  After a stage ran, prev is the frame it received and df    *)
(* the frame it produced.                                                  *)

\* length of the maximal run of NaN of column c that holds position i
RunLength(frame, c, i) ==
    LET e == SetMax({k \in i..Len(frame) : \A j \in i..k : IsNaN(frame[j][c])})
    IN  e - RunStart(frame, c, i) + 1

\* C1: a missing sample whose maximal run of consecutive missing samples is
\* longer than the limit (5) is still missing after the interpolation.
C1_GapLimit ==
    pc = "save" =>
        \A c \in science_vars : \A i \in DOMAIN prev :
            (IsNaN(prev[i][c]) /\ RunLength(prev, c, i) > interp_limit)
                => IsNaN(df[i][c])

\* C2: a sample before the first or after the last valid value of its field
\* is still missing after the interpolation.
C2_NoExtrapolation ==
    pc = "save" =>
        \A c \in science_vars : \A i \in DOMAIN prev :
            (Valid(prev, c) # {}
             /\ (i < SetMin(Valid(prev, c)) \/ i > SetMax(Valid(prev, c))))
                => IsNaN(df[i][c])

\* the frames that sentinel replacement, range clamping and the temporal
\* resolution (sort, duplicate removal, interpolation) make of a frame
Recleaned(frame, cols) ==
    LET c == PhysicsClip(ReplaceFill(frame), cols)
    IN  {Interpolate(DropDuplicates(Reorder(c, o))) : o \in SortOrders(c)}

\* C3: the cleaned series is a fixed point of the cleaning: sentinel
\* replacement, range clamping and temporal resolution leave it as it is.
C3_Idempotent ==
    (pc = "done" /\ ret = "df") => Recleaned(df, columns) = {df}

\* the row of prev at position i is a row of df (rows keep their label
\* through the filters and the sort)
Retained(i) == \E j \in DOMAIN df : df[j].index = prev[i].index

\* | sqrt(s) - b | >= tol
MagnitudeOff(s, b, tol) ==
    \/ b + tol <= 0
    \/ s >= (b + tol) * (b + tol)
    \/ (b - tol >= 0 /\ s <= (b - tol) * (b - tol))

\* C4: the kinematic filter drops a sample exactly when its three velocity
\* components and its bulk speed are present and the magnitude is off the
\* speed by 100 or more; a sample with one of them missing is retained.
C4_Kinematic ==
    (pc = "sort" /\ velocity_cols \subseteq columns
                 /\ "proton_bulk_speed" \in columns) =>
        \A i \in DOMAIN prev :
            ~Retained(i) <=>
                /\ \A c \in velocity_cols \cup {"proton_bulk_speed"} :
                        IsNum(prev[i][c])
                /\ MagnitudeOff(SumSquares(prev[i]),
                                Val(prev[i].proton_bulk_speed), speed_tolerance)

\* C5: the jump filter drops a sample exactly when one of its position
\* differences from the sample before is present and at least 1000.
C5_JumpRule ==
    (pc = "interpolate" /\ pos_cols \subseteq columns) =>
        \A i \in DOMAIN prev :
            ~Retained(i) <=>
                \E c \in pos_cols :
                    /\ IsNum(PosDiff(prev, i, c))
                    /\ Val(PosDiff(prev, i, c)) >= jump_threshold

\* C6: in the output of the jump filter, adjacent samples with present
\* positions differ by less than 1000 in every position component (the
\* difference that decides a sample is the one from the sample retained
\* before it).
C6_AdjacentRetained ==
    (pc = "interpolate" /\ pos_cols \subseteq columns) =>
        \A j \in 1..(Len(df) - 1) : \A c \in pos_cols :
            (IsNum(df[j][c]) /\ IsNum(df[j + 1][c]))
                => Abs(Val(df[j + 1][c]) - Val(df[j][c])) < jump_threshold

\* C7: the timestamps of the returned series are strictly increasing.
C7_StrictlyIncreasing ==
    (pc = "done" /\ ret = "df") =>
        \A i \in 1..(Len(df) - 1) : df[i].time < df[i + 1].time

\* a run on rows out of time order, with a repeated timestamp, of which the
\* jump filter dropped one, that returned two samples or more
C7_Witness ==
    /\ pc = "done" /\ ret = "df" /\ Len(df) >= 2
    /\ columns = AllColumns
    /\ \E i, j \in DOMAIN input : i < j /\ input[i].time > input[j].time
    /\ \E i, j \in DOMAIN input : i < j /\ input[i].time = input[j].time
    /\ Len(df) < Cardinality({input[i].time : i \in DOMAIN input})

\* C8: of the samples that share a timestamp, sort and drop_duplicates keep
\* the one that comes first in the input, and each timestamp once.
C8_StableDedup ==
    pc = "uncertainty" =>
        /\ \A i \in DOMAIN prev : \E j \in DOMAIN df : df[j].time = prev[i].time
        /\ \A j, k \in DOMAIN df : df[j].time = df[k].time => j = k
        /\ \A j \in DOMAIN df : \A i \in DOMAIN prev :
                prev[i].time = df[j].time => df[j].index <= prev[i].index

InRange(c, lower, upper) == IsNum(c) => (lower <= Val(c) /\ Val(c) <= upper)

Clamped(before, after, lower, upper) ==
    /\ IsNaN(before) => IsNaN(after)
    /\ (IsNum(before) /\ Val(before) < lower) => after = Num(lower)
    /\ (IsNum(before) /\ Val(before) > upper) => after = Num(upper)
    /\ (IsNum(before) /\ lower <= Val(before) /\ Val(before) <= upper)
            => after = before

\* C9: in the returned series the densities are missing or in [0, 100] and
\* the thermal speeds missing or in [0, 1e5]; the clamp keeps every sample,
\* moves a value out of range to the nearest bound and keeps NaN.
C9_Range ==
    /\ (pc = "done" /\ ret = "df") =>
            \A i \in DOMAIN df :
                /\ InRange(df[i].proton_density, 0, 100)
                /\ InRange(df[i].alpha_density, 0, 100)
                /\ InRange(df[i].proton_thermal, 0, 100000)
                /\ InRange(df[i].alpha_thermal, 0, 100000)
    /\ (pc = "velocity" /\ columns = AllColumns) =>
            /\ Len(df) = Len(prev)
            /\ \A i \in DOMAIN df :
                /\ Clamped(prev[i].proton_density, df[i].proton_density, 0, 100)
                /\ Clamped(prev[i].alpha_density, df[i].alpha_density, 0, 100)
                /\ Clamped(prev[i].proton_thermal, df[i].proton_thermal, 0, 100000)
                /\ Clamped(prev[i].alpha_thermal, df[i].alpha_thermal, 0, 100000)

\* a returned series with a density clamped from above, a thermal speed
\* clamped from below, both still there, and a density that was missing in
\* the input and is interpolated
C9_Witness ==
    /\ pc = "done" /\ ret = "df" /\ Len(df) = Len(input)
    /\ \A i \in DOMAIN df : df[i].time = input[i].time
    /\ \E i \in DOMAIN df :
            /\ IsNum(input[i].proton_density)
            /\ Val(input[i].proton_density) > 100
            /\ df[i].proton_density = Num(100)
    /\ \E i \in DOMAIN df :
            /\ IsNum(input[i].proton_thermal)
            /\ Val(input[i].proton_thermal) < 0
            /\ df[i].proton_thermal = Num(0)
    /\ \E i \in DOMAIN df :
            /\ IsNaN(input[i].proton_density)
            /\ IsNum(df[i].proton_density)

schema_pairs ==
    {<<"proton_density", "numden_p_uncer">>, <<"proton_bulk_speed", "bulk_p_uncer">>,
     <<"proton_thermal", "thermal_p_uncer">>, <<"alpha_density", "numden_a_uncer">>,
     <<"alpha_bulk_speed", "bulk_a_uncer">>, <<"alpha_thermal", "thermal_a_uncer">>}

\* uncertainty > 0.5 * |value|, both present
TooUncertain(r, p) ==
    /\ IsNum(r[p[1]]) /\ IsNum(r[p[2]])
    /\ 2 * Val(r[p[2]]) > Abs(Val(r[p[1]]))

\* C10: the uncertainty filter keeps every sample and, for each of the six
\* (value, uncertainty) pairs of the schema, sets the value to missing
\* exactly when uncertainty > 0.5 * |value|; every other field stays.
C10_Uncertainty ==
    (pc = "position" /\ columns = AllColumns) =>
        /\ Len(df) = Len(prev)
        /\ \A i \in DOMAIN df :
            /\ \A p \in schema_pairs :
                    IF TooUncertain(prev[i], p) THEN IsNaN(df[i][p[1]])
                    ELSE df[i][p[1]] = prev[i][p[1]]
            /\ \A f \in DOMAIN df[i] :
                    f \notin {p[1] : p \in schema_pairs} => df[i][f] = prev[i][f]

\* the frames the stages make of a CSV when they run in the order of the
\* function's numbered comments: sentinels, clamp, velocity filter, sort and
\* duplicate removal, uncertainty filter, position filter, interpolation
CodeOrder(frame, cols) ==
    LET c == PhysicsClip(ReplaceFill(frame), cols)
        v == IF velocity_cols \subseteq cols THEN VelocityFilter(c) ELSE c
        AfterSort(s) ==
            LET u == UncertaintyFilter(s, cols)
                p == IF pos_cols \subseteq cols THEN PositionFilter(u) ELSE u
            IN  Interpolate(p)
    IN  {AfterSort(DropDuplicates(Reorder(v, o))) : o \in SortOrders(v)}

\* the frames the same stages make when the three row filters all run before
\* the sort and the duplicate removal
FiltersFirst(frame, cols) ==
    LET c == PhysicsClip(ReplaceFill(frame), cols)
        v == IF velocity_cols \subseteq cols THEN VelocityFilter(c) ELSE c
        u == UncertaintyFilter(v, cols)
        p == IF pos_cols \subseteq cols THEN PositionFilter(u) ELSE u
    IN  {Interpolate(DropDuplicates(Reorder(p, o))) : o \in SortOrders(p)}

\* C17 as stated: the returned frame is the one produced by sentinel
\* replacement, range clamping, kinematic filter, uncertainty filter,
\* position-jump filter, then sort and duplicate removal, then interpolation.
C17_FiltersBeforeSort ==
    (pc = "done" /\ ret = "df") => df \in FiltersFirst(input, columns)

\* C17: the returned frame is the one produced by sentinel replacement, range
\* clamping, kinematic filter, sort and duplicate removal, uncertainty filter,
\* position-jump filter and interpolation, in this order; sentinel replacement
\* precedes every range test and the interpolation is the last transformation.
C17_CodeOrder ==
    /\ (pc = "done" /\ ret = "df") => df \in CodeOrder(input, columns)
    /\ pc = "save" => df = Interpolate(prev)
    /\ pc = "clip" => df = ReplaceFill(input)

\* a CSV whose rows are out of time order was cleaned, and the frame returned
\* is not one the filters-first order produces
C17_Witness ==
    /\ pc = "done"
    /\ ret = "df"
    /\ \E i, j \in DOMAIN input : i < j /\ input[i].time > input[j].time
    /\ df \notin FiltersFirst(input, columns)
    /\ Len(df) >= 1

\* what was printed for the files of the listing that the loop has passed
LogOf(f) == {n \in DOMAIN batch.log : batch.log[n].file = f}

\* if conversion fails, process_swis_data returns (None, None) without
\* running the cleaning, and the loop reaches every .cdf file of the listing
C19_ConversionAndLoop ==
    /\ \A n \in DOMAIN batch.log :
          LET e == batch.log[n]
          IN  ConvertFails(batch.files[e.file]) =>
                 e.raw_csv = "None" /\ e.cleaned_csv = "None" /\ ~e.cleaning
    /\ batch.pc = "end" =>
          \A f \in DOMAIN batch.files :
              batch.files[f].cdf => Cardinality(LogOf(f)) = 1

\* C19: process_swis_data returns a cleaned_csv path, and the batch reports a
\* file as successfully processed, only if clean_swis_data returned the frame
\* and wrote the cleaned file; a failed conversion gives (None, None) without
\* cleaning; the batch processes every remaining file.
C19_SuccessReporting ==
    /\ \A n \in DOMAIN batch.log :
          LET e == batch.log[n]
          IN  (e.cleaned_csv # "None" \/ e.reported) =>
                 (e.cleaning /\ e.clean_ret = "df" /\ e.written)
    /\ C19_ConversionAndLoop

\* the maximal runs of consecutive flagged samples, as <<first, last>>
MaximalRuns(flags) ==
    {r \in (DOMAIN flags) \X (DOMAIN flags) :
        /\ r[1] <= r[2]
        /\ \A i \in r[1]..r[2] : flags[i]
        /\ r[1] = 1 \/ ~flags[r[1] - 1]
        /\ r[2] = Len(flags) \/ ~flags[r[2] + 1]}

RunOf(event, r) ==
    /\ event.start_time = data.rows[r[1]]["time"]
    /\ event.end_time = data.rows[r[2]]["time"]
    /\ event.duration = r[2] - r[1] + 1

\* C12: the events detect_halo_cme returns are, in time order and one to
\* one, the maximal runs of consecutive flagged samples of length at least
\* min_duration; an event carries the time of the first and of the last
\* sample of its run and the number of its samples; a shorter run gives none.
C12_EventAggregation ==
    dpc = "returned" =>
        LET events == results.events
            kept == {r \in MaximalRuns(cme_candidates) :
                        r[2] - r[1] + 1 >= thresholds.dict.min_duration}
        IN  /\ Len(events) = Cardinality(kept)
            /\ \A n \in DOMAIN events : \E r \in kept : RunOf(events[n], r)
            /\ \A r \in kept : \E n \in DOMAIN events : RunOf(events[n], r)
            /\ \A n, m \in DOMAIN events :
                  n < m => events[n].end_time < events[m].start_time

\* detection returned an event of two samples, after dropping a run that
\* was shorter than min_duration
C12_Witness ==
    /\ dpc = "returned"
    /\ \E n \in DOMAIN results.events : results.events[n].duration = 2
    /\ \E r \in MaximalRuns(cme_candidates) :
          r[2] - r[1] + 1 < thresholds.dict.min_duration

detector_keys == {"speed", "density_jump", "alpha_ratio", "min_duration"}

LacksKey == ~thresholds.is_none /\ ~(detector_keys \subseteq DOMAIN thresholds.dict)

\* C16: when the thresholds passed to detect_halo_cme lack a key the detector
\* uses, detection does not return, no sample is evaluated and the series
\* that was passed in is not modified, whatever the series holds.
C16_FailsFast ==
    LacksKey =>
        /\ dpc # "returned"
        /\ cme_candidates = <<>>
        /\ data = given

\* C18: when detect_halo_cme or clean_data has returned, the frame the caller
\* passed in has the columns and the values it had when the call was made.
C18_InputNotMutated ==
    dpc \in {"returned", "clean_returned"} => data = given

\* the samples of the window that precede sample i
Preceding(rows, i) ==
    {j \in 1..(i - 1) : rows[j]["time"] > rows[i]["time"] - window}

\* the samples that precede i in its window all hold one density, and the
\* density of i is above it
SpikeOverConstant(rows, i) ==
    /\ Preceding(rows, i) # {}
    /\ IsNum(rows[i]["proton_density"])
    /\ \A j \in Preceding(rows, i) :
          /\ IsNum(rows[j]["proton_density"])
          /\ \A m \in Preceding(rows, i) :
                rows[m]["proton_density"] = rows[j]["proton_density"]
          /\ Val(rows[i]["proton_density"]) > Val(rows[j]["proton_density"])

\* C11: in test.py and in test1.py a sample whose density is above the one
\* constant density of all the window samples that precede it is flagged
\* (baseline mean c, baseline standard deviation 0, threshold c).
C11_RollingThreshold ==
    /\ dpc = "test_done" =>
          \A i \in DOMAIN data.rows :
              SpikeOverConstant(data.rows, i) => data.rows[i]["cme_detected"]
    /\ dpc = "test1_done" =>
          \A i \in DOMAIN data.rows :
              SpikeOverConstant(data.rows, i) => data.rows[i]["is_shock"]

\* the quotient columns of a frame with the column that holds the divisor
quotients == {<<"T_ratio", "T_exp">>, <<"beta", "B_mag">>}

ZeroOrMissing(c) == IsNaN(c) \/ c[1] = 0

\* C13: a derived quotient (T_ratio, beta, alpha_ratio) is missing whenever
\* its denominator is missing or zero, and no derived quantity is infinite.
C13_DivisionGuards ==
    \A q \in quotients :
        q[1] \in data.columns =>
            \A i \in DOMAIN data.rows :
                /\ ~IsInf(data.rows[i][q[1]])
                /\ ZeroOrMissing(data.rows[i][q[2]]) => IsNaN(data.rows[i][q[1]])

\* the quantities the criteria of detect_halo_cme read
detect_reads == {"proton_bulk_speed", "proton_density", "alpha_density", "density_ma"}

\* in detect_halo_cme a sample is flagged iff the three criteria hold; it is
\* not flagged when a quantity they read is missing, nor in the first
\* window_size - 1 samples; missing values raise no error
C14_DetectHaloCme ==
    /\ dpc \in {"aggregate", "statistics", "returned"} =>
          \A i \in DOMAIN data.rows :
              LET r == data.rows[i]
                  th == thresholds.dict
                  sum == SumScaled(data.rows, "proton_density", i - window_size + 1, i)
              IN  /\ (\E c \in detect_reads : IsNaN(r[c])) => ~cme_candidates[i]
                  /\ i < window_size => ~cme_candidates[i]
                  /\ cme_candidates[i] <=>
                        /\ \A c \in detect_reads : ~IsNaN(r[c])
                        /\ Scaled(r["proton_bulk_speed"]) > Scaled(th.speed)
                        /\ 100 * window_size * Scaled(r["proton_density"])
                              > sum * Scaled(th.density_jump)
                        /\ Scaled(r["alpha_density"]) > Scaled(th.alpha_ratio)
    /\ dpc = "raised" => LacksKey

\* C14: a sample is flagged iff every criterion of the profile holds; when a
\* quantity a criterion reads is missing the sample is not flagged and the
\* detection completes without an error, in detect_halo_cme and in
\* create_cme_dataset (run by parameterised.py).
C14_NotFlagged ==
    /\ C14_DetectHaloCme
    /\ dpc = "ended" => results.status = "returned"

\* the columns clean_swis_data reads without testing that they are there
RequiredAbsent(cols) ==
    \/ "time" \notin cols
    \/ velocity_cols \subseteq cols /\ "proton_bulk_speed" \notin cols
    \/ UncertKeyError(cols)

\* clean_swis_data on a CSV without a required column returns None, writes
\* no file and runs no stage after the one that failed
C15_CleanSwisData ==
    /\ (pc = "done" /\ RequiredAbsent(columns)) => ret = "None"
    /\ ret = "None" => (pc = "done" /\ ~written /\ df = prev)

\* C15: when a column the operation requires is absent from the input,
\* clean_swis_data and create_cme_dataset return None, write no output file
\* and run no later stage.
C15_SchemaError ==
    /\ C15_CleanSwisData
    /\ (dpc = "ended" /\ ~(required_cols \subseteq data.columns)) =>
          results.status = "None"

====
